---- MODULE Spec2Model ----
(***************************************************************************)
(* The wellness companion: the service functions analyzeTextMood,          *)
(* analyzeImageMood and getRecommendations, each an async function that    *)
(* issues at most one request to the external generative model and settles *)
(* a promise from the reply; the mood aggregator of the home and tracker   *)
(* screens; and the App component with its screens, whose handlers are     *)
(* suspended at an await until the external model answers.                 *)
(*                                                                         *)
(* Conventions.  A JS object is a function from field names to values; a   *)
(* field that is undefined is absent from the DOMAIN.  A value produced by *)
(* JSON.parse is tagged with its kind (null, number, object).  An emoji is *)
(* written as its code point ("U+1F610" is the neutral face).  The text of *)
(* a response is abstracted by what JSON.parse makes of it.  A Date is the *)
(* instant it holds, a number of clock ticks.  State updates made by one   *)
(* handler between two awaits are applied together.                        *)
(***************************************************************************)
EXTENDS Integers, Sequences, FiniteSets, TLC

VARIABLES
    defaultRecommendations,   \* the module-level default bundle object
    invocation,               \* the service invocation observed last
    clock,                    \* the instant new Date() / Date.now() reads
    currentPage,              \* App state: the page shown
    moodHistory,              \* App state: the mood entries, oldest first
    highDistressAlert,        \* App state: the distress flag
    chatSession,              \* App: chatSessionRef.current is set
    chatHistory,              \* App state: the chat messages, oldest first
    isAiTyping,               \* App state: the typing indicator
    screen,                   \* the local state of the mounted screen
    inflight,                 \* the handlers suspended at an await
    callsStarted,             \* how many handlers reached an await since Init
    view                      \* what HomeScreen or MoodTrackerScreen rendered last

appVars == <<clock, currentPage, moodHistory, highDistressAlert, chatSession,
             chatHistory, isAiTyping, screen, inflight, callsStarted, view>>

vars == <<defaultRecommendations, invocation, appVars>>

\* ------------------------------------------------------------------ bounds

\* longest mood history handed to getRecommendations
MaxHistory == 2

\* ------------------------------------------------------------------ types

Mood == {"Happy", "Sad", "Neutral", "Anxious", "Calm", "Excited", "Tired", "Angry", "Content"}

Source == {"Journal", "Voice", "Facial"}

VideoKind == {"Meditation", "Funny"}

NeutralFace == "U+1F610"

SmilingFace == "U+1F60A"

\* ------------------------------------------------------- JS / JSON values

JNull == [kind |-> "null"]

JNumber == [kind |-> "number"]

JObject(f) == [kind |-> "object", fields |-> f]

\* a JSON scalar that is truthy and is not a string (the number 7)
NonStringValue == "<number 7>"

IsString(v) == v # NonStringValue

\* obj[k] is truthy: present, and not the empty string
Truthy(obj, k) == k \in DOMAIN obj /\ obj[k] # ""

\* completion of a block of statements: a value, or an exception
Return(v) == [thrown |-> FALSE, value |-> v]

Throw == [thrown |-> TRUE, value |-> JNull]

\* settled state of the promise an async function returns
Fulfilled(v) == [state |-> "fulfilled", value |-> v]

RejectedPromise == [state |-> "rejected", value |-> JNull]

\* a variant that leaves the mood's capital letter as it is
toLowerCaseOmitted(s) == s

\* String.prototype.toLowerCase on the strings that occur as mood values
toLowerCase(s) ==
    CASE s = "Happy" -> "happy"
      [] s = "Sad" -> "sad"
      [] s = "Neutral" -> "neutral"
      [] s = "Anxious" -> "anxious"
      [] s = "Calm" -> "calm"
      [] s = "Excited" -> "excited"
      [] s = "Tired" -> "tired"
      [] s = "Angry" -> "angry"
      [] s = "Content" -> "content"
      [] s = "Furious" -> "furious"
      [] OTHER -> s

\* ------------------------------------------------ the external model's reply

\* response.text: undefined, text JSON.parse rejects, or the text of a value
TextUndefined == [kind |-> "undefined"]

TextMalformed == [kind |-> "malformed"]

TextOf(v) == [kind |-> "json", value |-> v]

\* the generateContent promise rejects (network error, non-2xx, model exception)
RemoteRejects == [kind |-> "rejected"]

RemoteResponds(text) == [kind |-> "response", text |-> text]

\* a remote failure in transport, or a response whose text does not parse
IsFailure(outcome) ==
    outcome.kind = "rejected" \/ outcome.text.kind \in {"undefined", "malformed"}

\* await generateContent(...); JSON.parse(response.text.trim())
ParseResponse(outcome) ==
    IF outcome.kind = "rejected" THEN Throw
    ELSE IF outcome.text.kind = "undefined" THEN Throw
    ELSE IF outcome.text.kind = "malformed" THEN Throw
    ELSE Return(outcome.text.value)

\* objects the model may answer a classification request with: every field
\* may be missing, empty or out of the enumeration
MoodValues == Mood \cup {"Furious", "", NonStringValue}

EmojiValues == {NeutralFace, SmilingFace, ""}

NotesValues == {"A gentle, quiet day."}

ClassificationFields ==
    LET opt(k, S) == {<<>>} \cup {[x \in {k} |-> v] : v \in S}
    IN  {m @@ e @@ n : m \in opt("mood", MoodValues),
                       e \in opt("emoji", EmojiValues),
                       n \in opt("notes", NotesValues)}

ClassificationJson == {JNull, JNumber} \cup {JObject(f) : f \in ClassificationFields}

ClassificationOutcomes ==
    {RemoteRejects, RemoteResponds(TextUndefined), RemoteResponds(TextMalformed)}
        \cup {RemoteResponds(TextOf(v)) : v \in ClassificationJson}

\* ------------------------------------------------------- analyzeTextMood

TextInputs == {"I had a lovely walk.", "Everything went wrong today."}

TextFallback ==
    JObject([mood |-> "Neutral", emoji |-> NeutralFace, notes |-> "Could not analyze mood."])

\* a variant that lets the exception escape
analyzeTextMoodNoCatch(outcome) ==
    LET r == ParseResponse(outcome)
    IN  IF r.thrown THEN RejectedPromise ELSE Fulfilled(r.value)

\* the promise analyzeTextMood returns, given the remote outcome
analyzeTextMood(outcome) ==
    LET r == ParseResponse(outcome)
    IN  IF r.thrown THEN Fulfilled(TextFallback) ELSE Fulfilled(r.value)

\* ------------------------------------------------------ analyzeImageMood

ImageInputs == {"/9j/4AAQ", "/9j/2wBD"}

ImageFallback ==
    JObject([mood |-> "Neutral", emoji |-> NeutralFace,
             notes |-> "Could not determine mood from image."])

\* the try block: parse, check mood and emoji, synthesize the notes
analyzeImageMoodTry(outcome) ==
    LET r == ParseResponse(outcome)
    IN  IF r.thrown THEN Throw
        ELSE IF r.value.kind = "null" THEN Throw
        ELSE LET o == IF r.value.kind = "object" THEN r.value.fields ELSE <<>>
             IN  IF Truthy(o, "mood") /\ Truthy(o, "emoji")
                 THEN IF IsString(o.mood)
                      THEN Return(JObject(
                               [mood |-> o.mood, emoji |-> o.emoji,
                                notes |-> "Detected a " \o toLowerCase(o.mood)
                                              \o " expression."]))
                      ELSE Throw
                 ELSE Throw

\* a variant whose catch block returns the text path's fallback
analyzeImageMoodTextFallback(outcome) ==
    LET r == analyzeImageMoodTry(outcome)
    IN  IF r.thrown THEN Fulfilled(TextFallback) ELSE Fulfilled(r.value)

\* the promise analyzeImageMood returns, given the remote outcome
analyzeImageMood(outcome) ==
    LET r == analyzeImageMoodTry(outcome)
    IN  IF r.thrown THEN Fulfilled(ImageFallback) ELSE Fulfilled(r.value)

\* ---------------------------------------------------- getRecommendations

\* the literal the module-level default bundle is initialised with
GenericDefault ==
    [forMood |-> "Neutral",
     breathing |-> <<"Take 5 deep breaths.",
                     "Try box breathing: inhale 4s, hold 4s, exhale 4s, hold 4s.",
                     "Focus on your breath for one minute.">>,
     journaling |-> <<"What is one thing you are grateful for today?",
                      "Describe a small moment of joy you experienced.",
                      "What is something you can let go of?">>,
     music |-> <<[title |-> "Acoustic Calm",
                  description |-> "Gentle instrumental guitar to soothe your mind."],
                 [title |-> "Lofi Beats",
                  description |-> "Relaxing hip hop beats for focus and chill."]>>,
     videos |-> <<[title |-> "5-Minute Guided Meditation for Beginners", type |-> "Meditation"],
                  [title |-> "Peaceful Forest Stream Sounds", type |-> "Meditation"]>>]

\* the fields the failure path assigns, per case of its switch
SadFallback ==
    [journaling |-> <<"What's one small thing that could bring you comfort right now?",
                      "Write a letter to your sadness, what would you say?",
                      "Recall a memory that once made you happy.">>,
     music |-> <<[title |-> "Hopeful Ambient",
                  description |-> "Gentle soundscapes to lift your spirits."],
                 [title |-> "Comforting Classics",
                  description |-> "Familiar, soothing classical pieces."]>>,
     videos |-> <<[title |-> "10-Min Meditation for Sadness", type |-> "Meditation"],
                  [title |-> "Guided Visualization: Your Safe Place", type |-> "Meditation"]>>]

AnxiousFallback ==
    [journaling |-> <<"What is within my control right now?",
                      "List 5 things you can see, 4 you can touch, 3 you can hear.",
                      "Write down your worries and then physically close the book on them.">>,
     music |-> <<[title |-> "Binaural Beats for Anxiety",
                  description |-> "Frequencies designed to calm the mind."],
                 [title |-> "Nature Sounds: Rain on a Window",
                  description |-> "The soothing sound of gentle rain."]>>,
     videos |-> <<[title |-> "Body Scan Meditation for Anxiety", type |-> "Meditation"],
                  [title |-> "Guided Breathing for Panic Attacks", type |-> "Meditation"]>>]

AngryFallback ==
    [journaling |-> <<"What is the root cause of this anger?",
                      "Write down everything you want to scream, then tear up the paper.",
                      "What is a productive action I can take with this energy?">>,
     music |-> <<[title |-> "Power Rock Anthems",
                  description |-> "High-energy tracks to release tension."],
                 [title |-> "Intense Classical",
                  description |-> "Dramatic orchestral pieces to match your intensity."]>>,
     videos |-> <<[title |-> "Walking Meditation to Release Anger", type |-> "Meditation"],
                  [title |-> "Try This When You Feel Angry (Guided Practice)",
                   type |-> "Meditation"]>>]

HappyExcitedFallback ==
    [journaling |-> <<"What are three things that contributed to this feeling?",
                      "How can you share this positive energy with others?",
                      "Describe this feeling in as much detail as possible.">>,
     music |-> <<[title |-> "Good Vibes Only",
                  description |-> "Upbeat pop and indie tracks to keep the energy high."],
                 [title |-> "Dance Party USA",
                  description |-> "Non-stop hits that make you want to move."]>>,
     videos |-> <<[title |-> "Try Not to Laugh Challenge", type |-> "Funny"],
                  [title |-> "Cute Animals Compilation", type |-> "Funny"]>>]

\* obj with obj.k = v assigned (k added when absent)
Assign(obj, k, v) == [x \in DOMAIN obj \cup {k} |-> IF x = k THEN v ELSE obj[x]]

\* { ...obj }: the own enumerable properties; none for null or a number
Spread(v) == IF v.kind = "object" THEN v.fields ELSE <<>>

Last(s) == s[Len(s)]

\* latestEntry?.mood || 'Neutral'
latestMoodOf(history) ==
    IF Len(history) > 0 /\ Truthy(Last(history), "mood")
    THEN Last(history).mood
    ELSE "Neutral"

\* a variant that leaves Tired out of the meditation moods
videoTypeWithoutTired(latestMood) ==
    IF latestMood \in {"Sad", "Anxious", "Angry"} THEN "Meditation" ELSE "Funny"

videoTypeOf(latestMood) ==
    IF latestMood \in {"Sad", "Anxious", "Angry", "Tired"} THEN "Meditation" ELSE "Funny"

\* the request: the prompt's two parameters and the schema's required fields
RecommendationsRequest(latestMood) ==
    [model |-> "gemini-2.5-flash",
     latestMood |-> latestMood,
     videoType |-> videoTypeOf(latestMood),
     required |-> {"breathing", "journaling", "music", "videos"}]

\* a variant in which the parsed fields are spread after forMood
StampForMoodSpreadLast(parsed, latestMood) ==
    LET o == Spread(parsed)
    IN  [x \in DOMAIN o \cup {"forMood"} |-> IF x \in DOMAIN o THEN o[x] ELSE latestMood]

\* { ...parsed, forMood: latestMood }
StampForMood(parsed, latestMood) == Assign(Spread(parsed), "forMood", latestMood)

\* fallback.journaling = ...; fallback.music = ...; fallback.videos = ...
Override(fallback, entry) ==
    Assign(Assign(Assign(fallback, "journaling", entry.journaling),
                  "music", entry.music),
           "videos", entry.videos)

\* a variant whose Sad case lacks its break and runs on into the Anxious case
RecommendationsFallbackNoBreak(defaults, latestMood) ==
    LET fallback == Assign(defaults, "forMood", latestMood)
    IN  CASE latestMood = "Sad" -> Override(Override(fallback, SadFallback), AnxiousFallback)
          [] latestMood = "Anxious" -> Override(fallback, AnxiousFallback)
          [] latestMood = "Angry" -> Override(fallback, AngryFallback)
          [] latestMood \in {"Happy", "Excited"} -> Override(fallback, HappyExcitedFallback)
          [] OTHER -> fallback

\* a variant that groups Tired with Sad
RecommendationsFallbackTiredAsSad(defaults, latestMood) ==
    LET fallback == Assign(defaults, "forMood", latestMood)
    IN  CASE latestMood \in {"Sad", "Tired"} -> Override(fallback, SadFallback)
          [] latestMood = "Anxious" -> Override(fallback, AnxiousFallback)
          [] latestMood = "Angry" -> Override(fallback, AngryFallback)
          [] latestMood \in {"Happy", "Excited"} -> Override(fallback, HappyExcitedFallback)
          [] OTHER -> fallback

\* the catch block: a copy of the default bundle, stamped, then the switch
RecommendationsFallback(defaults, latestMood) ==
    LET fallback == Assign(defaults, "forMood", latestMood)
    IN  CASE latestMood = "Sad" -> Override(fallback, SadFallback)
          [] latestMood = "Anxious" -> Override(fallback, AnxiousFallback)
          [] latestMood = "Angry" -> Override(fallback, AngryFallback)
          [] latestMood \in {"Happy", "Excited"} -> Override(fallback, HappyExcitedFallback)
          [] OTHER -> fallback

\* a variant that asks the model even when the history is empty
getRecommendationsAlwaysAsks(defaults, history) ==
    [returned |-> FALSE, promise |-> RejectedPromise,
     request |-> RecommendationsRequest(latestMoodOf(history))]

\* getRecommendations up to its await: the early return, or the request sent
getRecommendationsBegin(defaults, history) ==
    IF Len(history) = 0
    THEN [returned |-> TRUE, promise |-> Fulfilled(defaults),
          request |-> RecommendationsRequest(latestMoodOf(history))]
    ELSE [returned |-> FALSE, promise |-> RejectedPromise,
          request |-> RecommendationsRequest(latestMoodOf(history))]

\* getRecommendations from its await on: the promise it returns
getRecommendationsSettle(defaults, history, outcome) ==
    LET latestMood == latestMoodOf(history)
        r == ParseResponse(outcome)
    IN  IF r.thrown
        THEN Fulfilled(RecommendationsFallback(defaults, latestMood))
        ELSE Fulfilled(StampForMood(r.value, latestMood))

\* a catch block that would write to the default bundle itself, not to a copy
defaultRecommendationsAliased(defaults, history, outcome) ==
    IF ParseResponse(outcome).thrown
    THEN RecommendationsFallback(defaults, latestMoodOf(history))
    ELSE defaults

\* the module-level default bundle after the call: the catch block assigns
\* to the properties of its own copy, { ...defaultRecommendations }
defaultRecommendationsAfter(defaults, history, outcome) == defaults

\* what the model may answer a recommendations request with
ModelBundle ==
    [breathing |-> <<"Breathe in for 4, out for 6.", "Sigh it out twice.", "Count ten breaths.">>,
     journaling |-> <<"What lifted you today?", "Who would you thank?", "What can wait?">>,
     music |-> <<[title |-> "Morning Light", description |-> "Soft piano for a slow start."],
                 [title |-> "Evening Tide", description |-> "Waves and strings."]>>,
     videos |-> <<[title |-> "Cats vs. Cucumbers", type |-> "Funny"],
                  [title |-> "Bloopers of the Week", type |-> "Funny"]>>]

\* a bundle with every field present and lists of the wrong length
ShortBundle ==
    [breathing |-> <<"Breathe.">>,
     journaling |-> <<>>,
     music |-> <<[title |-> "Morning Light", description |-> "Soft piano for a slow start."]>>,
     videos |-> <<[title |-> "Cats vs. Cucumbers", type |-> "Funny"]>>]

\* the forMood values a response may carry of its own
EchoedMoods == {"Happy", "Sad"}

RecommendationsFields ==
    LET part(K) == [k \in K |-> ModelBundle[k]]
        echo == {<<>>} \cup {[x \in {"forMood"} |-> m] : m \in EchoedMoods}
    IN  {part(K) @@ e : K \in SUBSET (DOMAIN ModelBundle), e \in echo} \cup {ShortBundle}

RecommendationsJson == {JNull, JNumber} \cup {JObject(f) : f \in RecommendationsFields}

RecommendationsOutcomes ==
    {RemoteRejects, RemoteResponds(TextUndefined), RemoteResponds(TextMalformed)}
        \cup {RemoteResponds(TextOf(v)) : v \in RecommendationsJson}

\* mood histories of the declared type MoodEntry[]: the i-th entry was created
\* at instant i
EntryOf(i, mood) ==
    [id |-> i, mood |-> mood, emoji |-> NeutralFace, date |-> i, source |-> "Journal"]

Histories ==
    UNION {{[i \in 1..n |-> EntryOf(i, ms[i])] : ms \in [1..n -> Mood]} : n \in 0..MaxHistory}

\* ------------------------------------------------------ dates and the calendar

\* An instant is a number of clock ticks since midnight of the calendar's
\* first day; a Date object holds one instant.  The calendar is January to
\* March of a common year.

\* clock ticks in a day
TicksPerDay == 2

\* how far the clock can advance between the first and the last new Date()
\* of one render
MaxRenderTicks == 1

MonthLengths == <<31, 28, 31>>

MonthNames == <<"Jan", "Feb", "Mar">>

RECURSIVE MonthStart(_)
\* the day number (from 0) of the first day of month m
MonthStart(m) == IF m = 1 THEN 0 ELSE MonthStart(m - 1) + MonthLengths[m - 1]

DayOf(t) == t \div TicksPerDay

Midnight(day) == day * TicksPerDay

LastTick(day) == Midnight(day) + TicksPerDay - 1

MonthOf(t) ==
    CHOOSE m \in 1..Len(MonthLengths) :
        MonthStart(m) <= DayOf(t) /\ DayOf(t) < MonthStart(m) + MonthLengths[m]

\* Date.prototype.getDate: the day of the month, from 1
getDate(t) == DayOf(t) - MonthStart(MonthOf(t)) + 1

\* Date.prototype.setDate: day n of the month the Date is in, at the same
\* time of day; an n outside the month counts on into the neighbouring months
setDate(t, n) == Midnight(MonthStart(MonthOf(t)) + n - 1) + (t % TicksPerDay)

\* Date.prototype.setHours(0, 0, 0, 0)
setHoursMidnight(t) == Midnight(DayOf(t))

\* Date.prototype.toISOString
toISOString(t) == <<"ISO", t>>

\* toLocaleDateString('en-US', { month: 'short', day: 'numeric' })
toLocaleDateString(t) == <<MonthNames[MonthOf(t)], getDate(t)>>

\* the days the two windows of the tracker reach back
WeekDays == 7

MonthDays == 30

\* new Date(); setDate(now.getDate() - days); setHours(0, 0, 0, 0), where
\* base is the instant the cutoff's own new Date() read
CutoffOf(now, base, days) == setHoursMidnight(setDate(base, getDate(now) - days))

\* moodHistory.filter(entry => new Date(entry.date) >= cutoff)
EntriesSince(history, cutoff) == SelectSeq(history, LAMBDA entry : entry.date >= cutoff)

\* --------------------------------------------------------- the mood aggregator

\* the emoji literal of the distribution's default, as the file stores it
MisencodedNeutralFace == "mojibake(U+1F610)"

MoodScale ==
    [Angry |-> 0, Sad |-> 1, Tired |-> 2, Anxious |-> 3, Neutral |-> 4,
     Content |-> 5, Calm |-> 6, Excited |-> 7, Happy |-> 8]

\* the value returned when the table's entry is falsy
DefaultMoodValue == 4

\* return mapping[mood] || 4
moodToValue(mood) ==
    IF mood \in DOMAIN MoodScale /\ MoodScale[mood] # 0
    THEN MoodScale[mood]
    ELSE DefaultMoodValue

chartDataReversed(data) ==
    [i \in 1..Len(data) |->
        [date |-> toLocaleDateString(data[Len(data) + 1 - i].date),
         moodValue |-> moodToValue(data[Len(data) + 1 - i].mood),
         mood |-> data[Len(data) + 1 - i].mood]]

\* data.map(entry => ({ date, moodValue, mood }))
chartDataOf(data) ==
    [i \in 1..Len(data) |->
        [date |-> toLocaleDateString(data[i].date),
         moodValue |-> moodToValue(data[i].mood),
         mood |-> data[i].mood]]

\* fewest points the chart draws a line through
MinChartPoints == 2

\* MoodChart: the placeholder text, or the line chart of chartData
MoodChart(data) ==
    LET chartData == chartDataOf(data)
    IN  IF Len(chartData) < MinChartPoints
        THEN [shows |-> "Not enough data to draw a trend line.", chartData |-> chartData]
        ELSE [shows |-> "LineChart", chartData |-> chartData]

MathFloorPercent(count, total) == (100 * count) \div total

\* Math.round((count / total) * 100): the nearest integer, a half rounding up
MathRoundPercent(count, total) == (200 * count + total) \div (2 * total)

\* acc[entry.mood] = (acc[entry.mood] || 0) + 1, on an object whose keys keep
\* their insertion order: a sequence of <<mood, count>>
CountMood(acc, mood) ==
    IF \E i \in 1..Len(acc) : acc[i][1] = mood
    THEN [i \in 1..Len(acc) |-> IF acc[i][1] = mood THEN <<mood, acc[i][2] + 1>> ELSE acc[i]]
    ELSE Append(acc, <<mood, 1>>)

RECURSIVE ReduceCounts(_, _)
ReduceCounts(data, acc) ==
    IF data = <<>> THEN acc ELSE ReduceCounts(Tail(data), CountMood(acc, Head(data).mood))

\* if (!acc[entry.mood]) acc[entry.mood] = entry.emoji
KeepFirstEmoji(acc, entry) ==
    IF Truthy(acc, entry.mood) THEN acc ELSE Assign(acc, entry.mood, entry.emoji)

RECURSIVE ReduceEmoji(_, _)
ReduceEmoji(history, acc) ==
    IF history = <<>> THEN acc
    ELSE ReduceEmoji(Tail(history), KeepFirstEmoji(acc, Head(history)))

\* the place of a row in a sorted prefix: after every row whose count is not
\* smaller (Array.prototype.sort is stable)
RECURSIVE InsertByCount(_, _)
InsertByCount(sorted, row) ==
    IF sorted = <<>> THEN <<row>>
    ELSE IF Head(sorted).count >= row.count
         THEN <<Head(sorted)>> \o InsertByCount(Tail(sorted), row)
         ELSE <<row>> \o sorted

RECURSIVE SortByCountFrom(_, _)
SortByCountFrom(rows, sorted) ==
    IF rows = <<>> THEN sorted
    ELSE SortByCountFrom(Tail(rows), InsertByCount(sorted, Head(rows)))

\* .sort((a, b) => b.count - a.count)
SortByCount(rows) == SortByCountFrom(rows, <<>>)

\* the emotionStats memo of a StatsAndChartCard
emotionStats(data, history) ==
    IF Len(data) = 0 THEN <<>>
    ELSE LET counts == ReduceCounts(data, <<>>)
             total == Len(data)
             emojiMap == ReduceEmoji(history, <<>>)
         IN  SortByCount(
                 [i \in 1..Len(counts) |->
                     [mood |-> counts[i][1],
                      count |-> counts[i][2],
                      percentage |-> MathRoundPercent(counts[i][2], total),
                      emoji |-> IF Truthy(emojiMap, counts[i][1])
                                THEN emojiMap[counts[i][1]]
                                ELSE MisencodedNeutralFace]])

StatsAndChartCard(title, data, history) ==
    IF Len(data) = 0
    THEN [title |-> title, data |-> data, shows |-> "No mood data for this period."]
    ELSE [title |-> title, data |-> data, shows |-> "stats",
          emotionStats |-> emotionStats(data, history),
          chart |-> MoodChart(data)]

\* the body of MoodTrackerScreen, its three new Date() calls reading now,
\* weekBase and monthBase
MoodTrackerScreen(history, now, weekBase, monthBase) ==
    LET weekCutoff == CutoffOf(now, weekBase, WeekDays)
        weeklyMoods == EntriesSince(history, weekCutoff)
        monthCutoff == CutoffOf(now, monthBase, MonthDays)
        monthlyMoods == EntriesSince(history, monthCutoff)
        allTimeMoods == history
    IN  [page |-> "MoodTracker", now |-> now, history |-> history,
         cards |-> IF Len(history) > 0
                   THEN <<StatsAndChartCard("Last 7 Days", weeklyMoods, history),
                          StatsAndChartCard("Last 30 Days", monthlyMoods, history),
                          StatsAndChartCard("All Time", allTimeMoods, history)>>
                   ELSE <<>>]

\* the entries the summary chart and the recent list of HomeScreen take
SummaryPoints == 10

RecentEntries == 5

\* Array.prototype.slice(-n)
SliceLast(s, n) == IF Len(s) <= n THEN s ELSE SubSeq(s, Len(s) - n + 1, Len(s))

\* Array.prototype.reverse
Reverse(s) == [i \in 1..Len(s) |-> s[Len(s) + 1 - i]]

\* the mood summary of HomeScreen
HomeScreen(history, alert) ==
    [page |-> "Home", history |-> history,
     alertCard |-> alert,
     chart |-> MoodChart(SliceLast(history, SummaryPoints)),
     recent |-> Reverse(SliceLast(history, RecentEntries))]

NotRendered == [page |-> "none"]

\* ------------------------------------------------------ the state machine

Idle == [phase |-> "idle"]

\* the state of a screen that declares none
NoLocalState == <<>>

Init ==
    /\ defaultRecommendations = GenericDefault
    /\ invocation = Idle
    /\ clock = 0
    /\ currentPage = "Splash"
    /\ moodHistory = <<>>
    /\ highDistressAlert = FALSE
    /\ chatSession = FALSE
    /\ chatHistory = <<>>
    /\ isAiTyping = FALSE
    /\ screen = NoLocalState
    /\ inflight = {}
    /\ callsStarted = 0
    /\ view = NotRendered

\* the start of analyzeTextMood(text): the request is sent
InvokeAnalyzeTextMood(text) ==
    /\ invocation.phase = "idle"
    /\ invocation' = [phase |-> "awaiting", op |-> "analyzeTextMood", arg |-> text,
                      request |-> [model |-> "gemini-2.5-flash", entry |-> text,
                                   required |-> {"emoji", "mood", "notes"}],
                      requests |-> 1]
    /\ UNCHANGED <<defaultRecommendations, appVars>>

\* the start of analyzeImageMood(base64Image): the request is sent
InvokeAnalyzeImageMood(image) ==
    /\ invocation.phase = "idle"
    /\ invocation' = [phase |-> "awaiting", op |-> "analyzeImageMood", arg |-> image,
                      request |-> [model |-> "gemini-2.5-flash", image |-> image,
                                   required |-> {"emoji", "mood"}],
                      requests |-> 1]
    /\ UNCHANGED <<defaultRecommendations, appVars>>

\* the start of getRecommendations(moodHistory): the default bundle is
\* returned at once, or the request is sent
InvokeGetRecommendations(history) ==
    /\ invocation.phase = "idle"
    /\ LET b == getRecommendationsBegin(defaultRecommendations, history)
       IN  invocation' =
               IF b.returned
               THEN [phase |-> "settled", op |-> "getRecommendations", arg |-> history,
                     requests |-> 0, promise |-> b.promise]
               ELSE [phase |-> "awaiting", op |-> "getRecommendations", arg |-> history,
                     request |-> b.request, requests |-> 1]
    /\ UNCHANGED <<defaultRecommendations, appVars>>

\* the awaited request settles and the function runs to its return
SettleAnalyzeTextMood(outcome) ==
    /\ invocation.phase = "awaiting"
    /\ invocation.op = "analyzeTextMood"
    /\ invocation' = [phase |-> "settled", op |-> invocation.op, arg |-> invocation.arg,
                      request |-> invocation.request, requests |-> invocation.requests,
                      outcome |-> outcome, promise |-> analyzeTextMood(outcome)]
    /\ UNCHANGED <<defaultRecommendations, appVars>>

SettleAnalyzeImageMood(outcome) ==
    /\ invocation.phase = "awaiting"
    /\ invocation.op = "analyzeImageMood"
    /\ invocation' = [phase |-> "settled", op |-> invocation.op, arg |-> invocation.arg,
                      request |-> invocation.request, requests |-> invocation.requests,
                      outcome |-> outcome, promise |-> analyzeImageMood(outcome)]
    /\ UNCHANGED <<defaultRecommendations, appVars>>

SettleGetRecommendations(outcome) ==
    /\ invocation.phase = "awaiting"
    /\ invocation.op = "getRecommendations"
    /\ invocation' = [phase |-> "settled", op |-> invocation.op, arg |-> invocation.arg,
                      request |-> invocation.request, requests |-> invocation.requests,
                      outcome |-> outcome,
                      promise |-> getRecommendationsSettle(defaultRecommendations,
                                                           invocation.arg, outcome)]
    /\ defaultRecommendations' =
           defaultRecommendationsAfter(defaultRecommendations, invocation.arg, outcome)
    /\ UNCHANGED appVars

\* the caller's await takes the settled promise's value
DeliverResult ==
    /\ invocation.phase = "settled"
    /\ invocation' = Idle
    /\ UNCHANGED <<defaultRecommendations, appVars>>

ServiceNext ==
    \/ \E text \in TextInputs : InvokeAnalyzeTextMood(text)
    \/ \E image \in ImageInputs : InvokeAnalyzeImageMood(image)
    \/ \E history \in Histories : InvokeGetRecommendations(history)
    \/ \E outcome \in ClassificationOutcomes : SettleAnalyzeTextMood(outcome)
    \/ \E outcome \in ClassificationOutcomes : SettleAnalyzeImageMood(outcome)
    \/ \E outcome \in RecommendationsOutcomes : SettleGetRecommendations(outcome)
    \/ DeliverResult

\* the service functions, each called with inputs of its declared type and
\* answered by the external model in every way it can answer
ServiceSpec == Init /\ [][ServiceNext]_vars

\* ------------------------------------------------- rendering the mood views

\* longest mood history a view is rendered from
MaxSlice == 3

\* a mood entry as addMoodEntry makes it at instant t
EntryAt(t, mood, emoji) ==
    [id |-> toISOString(t), mood |-> mood, emoji |-> emoji, date |-> t,
     source |-> "Journal"]

\* the sequences over a set of instants that are in time order
InTimeOrder(dates, n) ==
    {ds \in [1..n -> dates] : \A i \in 1..n : \A j \in i..n : ds[i] <= ds[j]}

ViewMoods == {"Happy", "Angry"}

ViewEmoji == {"", SmilingFace, NeutralFace}

\* mid March, and entries of the last week and of the weeks before
StatsNow == Midnight(MonthStart(3) + 14) + 1

StatsDates == {Midnight(DayOf(StatsNow) - 20), Midnight(DayOf(StatsNow) - 3)}

StatsHistories ==
    UNION {{[i \in 1..n |-> EntryAt(ds[i], ms[i], es[i])] :
               ds \in InTimeOrder(StatsDates, n), ms \in [1..n -> ViewMoods],
               es \in [1..n -> ViewEmoji]} : n \in 0..MaxSlice}

\* the last instant of February, and the first and the last instant of a
\* day of March
BoundaryClocks ==
    {LastTick(MonthStart(3) - 1), Midnight(MonthStart(3) + 9), LastTick(MonthStart(3) + 9)}

\* the instants at and just before the two cutoffs of a render at instant c
BoundaryDates(c) ==
    {Midnight(DayOf(c) - MonthDays) - 1, Midnight(DayOf(c) - MonthDays),
     Midnight(DayOf(c) - WeekDays) - 1, Midnight(DayOf(c) - WeekDays), c}

BoundaryHistories(c) ==
    UNION {{[i \in 1..n |-> EntryAt(ds[i], "Happy", SmilingFace)] :
               ds \in InTimeOrder(BoundaryDates(c), n)} : n \in 1..MaxSlice}

\* what a view is rendered from: the page, the instant and the history
ViewInputs ==
    {<<page, StatsNow, h>> : page \in {"Home", "MoodTracker"}, h \in StatsHistories}
    \cup UNION {{<<"MoodTracker", c, h>> : h \in BoundaryHistories(c)} : c \in BoundaryClocks}

ViewInit ==
    /\ defaultRecommendations = GenericDefault
    /\ invocation = Idle
    /\ \E input \in ViewInputs :
           /\ currentPage = input[1]
           /\ clock = input[2]
           /\ moodHistory = input[3]
    /\ highDistressAlert = FALSE
    /\ chatSession = FALSE
    /\ chatHistory = <<>>
    /\ isAiTyping = FALSE
    /\ screen = NoLocalState
    /\ inflight = {}
    /\ callsStarted = 0
    /\ view = NotRendered

\* HomeScreen renders
RenderHome ==
    /\ currentPage = "Home"
    /\ view = NotRendered
    /\ view' = HomeScreen(moodHistory, highDistressAlert)
    /\ UNCHANGED <<defaultRecommendations, invocation, clock, currentPage, moodHistory,
                   highDistressAlert, chatSession, chatHistory, isAiTyping, screen,
                   inflight, callsStarted>>

\* MoodTrackerScreen renders; the clock may advance between its three reads
RenderMoodTracker ==
    /\ currentPage = "MoodTracker"
    /\ view = NotRendered
    /\ \E weekBase \in clock..(clock + MaxRenderTicks) :
       \E monthBase \in weekBase..(clock + MaxRenderTicks) :
           /\ view' = MoodTrackerScreen(moodHistory, clock, weekBase, monthBase)
           /\ clock' = monthBase
    /\ UNCHANGED <<defaultRecommendations, invocation, currentPage, moodHistory,
                   highDistressAlert, chatSession, chatHistory, isAiTyping, screen,
                   inflight, callsStarted>>

ViewNext == RenderHome \/ RenderMoodTracker

\* the two mood views, each rendered once from a history in time order
ViewSpec == ViewInit /\ [][ViewNext]_vars

\* ------------------------------------------------------------------ the app

\* how many calls of the external model one run of the app makes
MaxCalls == 2

\* the last instant the clock reaches
MaxClock == 1

Page ==
    {"Splash", "Welcome", "SignIn", "SignUp", "Home", "MoodScan", "Journal", "VoiceLog",
     "Recommendations", "SupportChat", "Safety", "MoodTracker"}

\* what the buttons of the onboarding screens navigate from and to
OnboardingSteps ==
    {<<"Welcome", "SignIn">>, <<"SignIn", "Home">>, <<"SignIn", "SignUp">>,
     <<"SignUp", "Home">>, <<"SignUp", "SignIn">>}

\* the feature cards of HomeScreen whose screens start nothing when mounted
PlainFeatures == {"MoodTracker", "Journal", "VoiceLog", "MoodScan"}

\* the screens with a button back to Home
ScreensWithBack ==
    {"Journal", "VoiceLog", "MoodScan", "MoodTracker", "Recommendations", "Safety",
     "SupportChat"}

\* the useState initial values of a screen
MountState(page) ==
    CASE page \in {"Journal", "VoiceLog"} -> [isLoading |-> FALSE]
      [] page = "MoodScan" -> [isLoading |-> FALSE, detectedMood |-> JNull]
      [] page = "Recommendations" -> [recommendations |-> JNull, isLoading |-> TRUE]
      [] OTHER -> NoLocalState

\* the entry text or transcript: typed text, or only white space
AppTexts == {"Everything went wrong today.", "   "}

\* String.prototype.trim on the strings that occur
trim(s) ==
    CASE s = "   " -> ""
      [] s = " I hear you. " -> "I hear you."
      [] OTHER -> s

\* what the model answers a classification request with, in the app: no
\* answer (the fallback is Neutral), the JSON null, or a distressing mood
AppClassificationOutcomes ==
    {RemoteRejects, RemoteResponds(TextOf(JNull)),
     RemoteResponds(TextOf(JObject(
         [mood |-> "Sad", emoji |-> "U+1F622", notes |-> "A heavy, difficult day."])))}

AppRecommendationsOutcomes ==
    {RemoteRejects, RemoteResponds(TextOf(JObject(ModelBundle)))}

\* what the chat session answers a message with
ChatOutcomes ==
    {RemoteRejects, RemoteResponds(TextUndefined),
     RemoteResponds([kind |-> "plain", value |-> " I hear you. "])}

\* the frame the scan screen captures
AppImages == {"/9j/4AAQ"}

ChatTexts == {"I feel overwhelmed."}

Greeting ==
    [id |-> "init-1", sender |-> "ai",
     text |-> "Hello! I'm your MindWell assistant. How can I support you right now?"]

ChatApology ==
    "I'm having a little trouble connecting right now. Please try again in a moment."

IsDistressWithoutAnxious(entry) == "mood" \in DOMAIN entry /\ entry.mood \in {"Sad", "Angry"}

\* ['Sad', 'Angry', 'Anxious'].includes(newEntry.mood)
IsDistress(entry) == "mood" \in DOMAIN entry /\ entry.mood \in {"Sad", "Angry", "Anxious"}

\* { ...entry, id: new Date().toISOString(), date: new Date() }
newEntryOf(entry, idAt, dateAt) ==
    Assign(Assign(entry, "id", toISOString(idAt)), "date", dateAt)

\* an update that would forget what was there
KeepNewestOnly(prev, newEntry) == <<newEntry>>

PrependEntry(prev, newEntry) == <<newEntry>> \o prev

\* setMoodHistory(prev => [...prev, newEntry])
AppendEntry(prev, newEntry) == Append(prev, newEntry)

AlertFollowsMood(alert, newEntry) == IsDistress(newEntry)

\* if (... includes(newEntry.mood)) setHighDistressAlert(true)
AlertAfter(alert, newEntry) == IF IsDistress(newEntry) THEN TRUE ELSE alert

RetryOnce(op) == 1

\* the requests a service function issues after its request failed: its
\* catch block returns a value and calls the model no more
RequestsAfterFailure(op) == 0

\* a handler suspended at its await of the external model
Call(id, op, caller, source, arg) ==
    [id |-> id, op |-> op, caller |-> caller, source |-> source, arg |-> arg,
     requests |-> 1, live |-> TRUE]

\* an unmount that would abandon the requests of the screen
CancelOnUnmount(calls, page) == {c \in calls : c.caller # page}

\* the handlers whose screen has been unmounted
Unmount(calls, page) ==
    {IF c.caller = page THEN [c EXCEPT !.live = FALSE] ELSE c : c \in calls}

\* the record of an invocation that has run to its return
SettledCall(c, outcome, promise) ==
    [phase |-> "settled", op |-> c.op, arg |-> c.arg, requests |-> c.requests,
     outcome |-> outcome, promise |-> promise]

\* the failed request is issued again (never, see RequestsAfterFailure)
AsksAgain(c, outcome) == IsFailure(outcome) /\ c.requests <= RequestsAfterFailure(c.op)

AskAgain(c) ==
    /\ inflight' = (inflight \ {c}) \cup {[c EXCEPT !.requests = @ + 1]}
    /\ UNCHANGED <<defaultRecommendations, invocation, clock, currentPage, moodHistory,
                   highDistressAlert, chatSession, chatHistory, isAiTyping, screen,
                   callsStarted, view>>

\* what a new Date() or Date.now() can read when the clock last read t: the
\* same instant or a later one
Reads(t) == {r \in {t, t + 1} : r <= MaxClock}

\* navigate(page) to a screen that starts nothing when mounted
Show(page) ==
    /\ currentPage' = page
    /\ screen' = IF page = currentPage THEN screen ELSE MountState(page)
    /\ inflight' = IF page = currentPage THEN inflight ELSE Unmount(inflight, currentPage)
    /\ UNCHANGED <<defaultRecommendations, invocation, clock, moodHistory, chatSession,
                   chatHistory, isAiTyping, callsStarted, view>>

\* SplashScreen's timer fires
SplashTimer ==
    /\ currentPage = "Splash"
    /\ Show("Welcome")
    /\ UNCHANGED highDistressAlert

\* a button of WelcomeScreen, SignInScreen or SignUpScreen
Onboard(step) ==
    /\ currentPage = step[1]
    /\ Show(step[2])
    /\ UNCHANGED highDistressAlert

\* a feature card of HomeScreen
OpenFeature(page) ==
    /\ currentPage = "Home"
    /\ Show(page)
    /\ UNCHANGED highDistressAlert

\* the button of the safety alert card, shown while the flag is set
OpenSafety ==
    /\ currentPage = "Home"
    /\ highDistressAlert
    /\ Show("Safety")
    /\ UNCHANGED highDistressAlert

\* the back button of a screen
BackHome ==
    /\ currentPage \in ScreensWithBack
    /\ Show("Home")
    /\ UNCHANGED highDistressAlert

\* SafetyScreen.handleDismiss
HandleDismiss ==
    /\ currentPage = "Safety"
    /\ highDistressAlert' = FALSE
    /\ Show("Home")

\* fetchRecommendations, run by the effect of RecommendationsScreen: the
\* state of the screen and the suspended handlers after it, given those before
FetchRecommendations(local, calls) ==
    LET b == getRecommendationsBegin(defaultRecommendations, moodHistory')
    IN  IF b.returned
        THEN /\ screen' = [local EXCEPT !.recommendations = b.promise.value,
                                        !.isLoading = FALSE]
             /\ inflight' = calls
             /\ callsStarted' = callsStarted
        ELSE /\ callsStarted < MaxCalls
             /\ screen' = [local EXCEPT !.isLoading = TRUE]
             /\ inflight' = calls \cup {Call(callsStarted + 1, "getRecommendations",
                                              "Recommendations", "none", moodHistory')}
             /\ callsStarted' = callsStarted + 1

\* the recommendations button of HomeScreen; the mounted screen fetches
OpenRecommendations ==
    /\ currentPage = "Home"
    /\ currentPage' = "Recommendations"
    /\ moodHistory' = moodHistory
    /\ FetchRecommendations(MountState("Recommendations"), Unmount(inflight, currentPage))
    /\ UNCHANGED <<defaultRecommendations, invocation, clock, highDistressAlert,
                   chatSession, chatHistory, isAiTyping, view>>

\* an initializeChat that would start over each time
initializeChatAnew(session, history) == <<Greeting>>

\* the chat history after initializeChat(): seeded when there was no session
initializeChat(session, history) == IF session THEN history ELSE <<Greeting>>

\* the chat card of HomeScreen; the mounted screen runs initializeChat
OpenSupportChat ==
    /\ currentPage = "Home"
    /\ currentPage' = "SupportChat"
    /\ screen' = MountState("SupportChat")
    /\ inflight' = Unmount(inflight, currentPage)
    /\ chatSession' = TRUE
    /\ chatHistory' = initializeChat(chatSession, chatHistory)
    /\ UNCHANGED <<defaultRecommendations, invocation, clock, moodHistory,
                   highDistressAlert, isAiTyping, callsStarted, view>>

\* JournalScreen.handleSubmit and VoiceLogScreen.handleAnalyze, to the await
SubmitText(page, source, text) ==
    /\ currentPage = page
    /\ trim(text) # ""
    /\ ~screen.isLoading
    /\ callsStarted < MaxCalls
    /\ screen' = [screen EXCEPT !.isLoading = TRUE]
    /\ inflight' = inflight \cup {Call(callsStarted + 1, "analyzeTextMood", page, source, text)}
    /\ callsStarted' = callsStarted + 1
    /\ UNCHANGED <<defaultRecommendations, invocation, clock, currentPage, moodHistory,
                   highDistressAlert, chatSession, chatHistory, isAiTyping, view>>

\* a JournalScreen that would tag its entries as spoken
JournalSubmitAsVoice(text) == SubmitText("Journal", "Voice", text)

JournalSubmit(text) == SubmitText("Journal", "Journal", text)

VoiceAnalyze(text) == SubmitText("VoiceLog", "Voice", text)

\* MoodScanScreen.handleCaptureAndAnalyze with an image at hand, to the await
ScanCapture(image) ==
    /\ currentPage = "MoodScan"
    /\ ~screen.isLoading
    /\ callsStarted < MaxCalls
    /\ screen' = [isLoading |-> TRUE, detectedMood |-> JNull]
    /\ inflight' = inflight \cup {Call(callsStarted + 1, "analyzeImageMood", "MoodScan",
                                        "Facial", image)}
    /\ callsStarted' = callsStarted + 1
    /\ UNCHANGED <<defaultRecommendations, invocation, clock, currentPage, moodHistory,
                   highDistressAlert, chatSession, chatHistory, isAiTyping, view>>

\* addMoodEntry(entry): its two new Date() calls read the clock at idAt and
\* at dateAt
addMoodEntry(entry, idAt, dateAt) ==
    LET newEntry == newEntryOf(entry, idAt, dateAt)
    IN  /\ moodHistory' = AppendEntry(moodHistory, newEntry)
        /\ highDistressAlert' = AlertAfter(highDistressAlert, newEntry)
        /\ clock' = dateAt

\* handleSubmit / handleAnalyze from the await: the entry is added and the
\* app navigates to Home, which unmounts the screen
SettleText(c, outcome) ==
    /\ c \in inflight
    /\ c.op = "analyzeTextMood"
    /\ IF AsksAgain(c, outcome) THEN AskAgain(c)
       ELSE LET promise == analyzeTextMood(outcome)
                entry == Assign(Spread(promise.value), "source", c.source)
            IN  /\ \E idAt \in Reads(clock) : \E dateAt \in Reads(idAt) :
                       addMoodEntry(entry, idAt, dateAt)
                /\ currentPage' = "Home"
                /\ screen' = IF currentPage = "Home" THEN screen ELSE MountState("Home")
                /\ inflight' = IF currentPage = "Home" THEN inflight \ {c}
                               ELSE Unmount(inflight \ {c}, currentPage)
                /\ invocation' = SettledCall(c, outcome, promise)
                /\ UNCHANGED <<defaultRecommendations, chatSession, chatHistory,
                               isAiTyping, callsStarted, view>>

\* handleCaptureAndAnalyze from the await: the detected mood is shown if the
\* screen is still mounted, the entry is added, and a mounted
\* RecommendationsScreen fetches for the new history
SettleImage(c, outcome) ==
    /\ c \in inflight
    /\ c.op = "analyzeImageMood"
    /\ IF AsksAgain(c, outcome) THEN AskAgain(c)
       ELSE LET promise == analyzeImageMood(outcome)
                result == promise.value.fields
                entry == Assign(Spread(promise.value), "source", c.source)
            IN  /\ \E idAt \in Reads(clock) : \E dateAt \in Reads(idAt) :
                       addMoodEntry(entry, idAt, dateAt)
                /\ invocation' = SettledCall(c, outcome, promise)
                /\ IF currentPage = "Recommendations"
                   THEN FetchRecommendations(screen, inflight \ {c})
                   ELSE /\ screen' = IF c.live
                                     THEN [isLoading |-> FALSE,
                                           detectedMood |-> [mood |-> result.mood,
                                                             emoji |-> result.emoji]]
                                     ELSE screen
                        /\ inflight' = inflight \ {c}
                        /\ callsStarted' = callsStarted
                /\ UNCHANGED <<defaultRecommendations, currentPage, chatSession,
                               chatHistory, isAiTyping, view>>

\* fetchRecommendations from the await: the bundle is shown if the screen is
\* still mounted
SettleRecommendations(c, outcome) ==
    /\ c \in inflight
    /\ c.op = "getRecommendations"
    /\ IF AsksAgain(c, outcome) THEN AskAgain(c)
       ELSE LET promise == getRecommendationsSettle(defaultRecommendations, c.arg, outcome)
            IN  /\ screen' = IF c.live
                             THEN [recommendations |-> promise.value, isLoading |-> FALSE]
                             ELSE screen
                /\ inflight' = inflight \ {c}
                /\ invocation' = SettledCall(c, outcome, promise)
                /\ defaultRecommendations' =
                       defaultRecommendationsAfter(defaultRecommendations, c.arg, outcome)
                /\ UNCHANGED <<clock, currentPage, moodHistory, highDistressAlert,
                               chatSession, chatHistory, isAiTyping, callsStarted, view>>

\* sendMessage(text), to the await; it returns at once without a session
sendMessage(text) ==
    IF ~chatSession THEN UNCHANGED vars
    ELSE /\ callsStarted < MaxCalls
         /\ \E now \in Reads(clock) :
                /\ chatHistory' = Append(chatHistory, [id |-> <<"user", now>>,
                                                       sender |-> "user", text |-> text])
                /\ clock' = now
         /\ isAiTyping' = TRUE
         /\ inflight' = inflight \cup {Call(callsStarted + 1, "sendMessage", "App", "none",
                                             text)}
         /\ callsStarted' = callsStarted + 1
         /\ UNCHANGED <<defaultRecommendations, invocation, currentPage, moodHistory,
                        highDistressAlert, chatSession, screen, view>>

\* handleSend / handleQuickPick of SupportChatScreen
ChatSend(text) ==
    /\ currentPage = "SupportChat"
    /\ trim(text) # ""
    /\ sendMessage(trim(text))

\* a catch block that appends nothing worth reading
ReplyTextWithoutApology(outcome) ==
    IF IsFailure(outcome) THEN "" ELSE trim(outcome.text.value)

\* the text of the message sendMessage appends after its await
ReplyText(outcome) ==
    IF IsFailure(outcome) THEN ChatApology ELSE trim(outcome.text.value)

\* sendMessage from the await: the reply or the apology is appended and the
\* typing indicator is cleared
SettleChat(c, outcome) ==
    /\ c \in inflight
    /\ c.op = "sendMessage"
    /\ IF AsksAgain(c, outcome) THEN AskAgain(c)
       ELSE /\ \E now \in Reads(clock) :
                   /\ chatHistory' = Append(chatHistory, [id |-> <<"ai", now>>, sender |-> "ai",
                                                          text |-> ReplyText(outcome)])
                   /\ clock' = now
            /\ isAiTyping' = FALSE
            /\ inflight' = inflight \ {c}
            /\ invocation' = SettledCall(c, outcome, Fulfilled(JNull))
            /\ UNCHANGED <<defaultRecommendations, currentPage, moodHistory,
                           highDistressAlert, chatSession, screen, callsStarted, view>>

AppNext ==
    \/ SplashTimer
    \/ \E step \in OnboardingSteps : Onboard(step)
    \/ \E page \in PlainFeatures : OpenFeature(page)
    \/ OpenSafety
    \/ OpenRecommendations
    \/ OpenSupportChat
    \/ BackHome
    \/ HandleDismiss
    \/ \E text \in AppTexts : JournalSubmit(text)
    \/ \E text \in AppTexts : VoiceAnalyze(text)
    \/ \E image \in AppImages : ScanCapture(image)
    \/ \E c \in inflight : \E outcome \in AppClassificationOutcomes : SettleText(c, outcome)
    \/ \E c \in inflight : \E outcome \in AppClassificationOutcomes : SettleImage(c, outcome)
    \/ \E c \in inflight : \E outcome \in AppRecommendationsOutcomes :
           SettleRecommendations(c, outcome)
    \/ \E text \in ChatTexts : ChatSend(text)
    \/ \E c \in inflight : \E outcome \in ChatOutcomes : SettleChat(c, outcome)

\* the app from its first render: the user navigates, logs moods and chats,
\* the external model answers each call in any order and in any way
AppSpec == Init /\ [][AppNext]_vars

\* --------------------------------------------------------- logging moods

\* what the screens hand to addMoodEntry: a classification of the declared
\* type with the source added
LoggedEntries ==
    {[mood |-> m, emoji |-> SmilingFace, notes |-> "A gentle, quiet day.",
      source |-> "Journal"] : m \in Mood}

\* a screen calls addMoodEntry(entry)
LogMood(entry) ==
    /\ Len(moodHistory) < MaxHistory
    /\ \E idAt \in Reads(clock) : \E dateAt \in Reads(idAt) :
           addMoodEntry(entry, idAt, dateAt)
    /\ UNCHANGED <<defaultRecommendations, invocation, currentPage, chatSession,
                   chatHistory, isAiTyping, screen, inflight, callsStarted, view>>

MoodLogInit ==
    /\ defaultRecommendations = GenericDefault
    /\ invocation = Idle
    /\ clock = 0
    /\ currentPage = "Home"
    /\ moodHistory = <<>>
    /\ highDistressAlert = FALSE
    /\ chatSession = FALSE
    /\ chatHistory = <<>>
    /\ isAiTyping = FALSE
    /\ screen = NoLocalState
    /\ inflight = {}
    /\ callsStarted = 0
    /\ view = NotRendered

MoodLogNext ==
    \/ \E entry \in LoggedEntries : LogMood(entry)
    \/ OpenSafety
    \/ BackHome
    \/ HandleDismiss

\* addMoodEntry called with an entry of each of the nine moods, the alert
\* set or dismissed before
MoodLogSpec == MoodLogInit /\ [][MoodLogNext]_vars

\* ------------------------------------------------- journal and voice log

TextScreens == {"Journal", "VoiceLog"}

\* the external model answers the n-th call, a classification of a text
TextAnswered(n) ==
    \E c \in inflight : \E outcome \in AppClassificationOutcomes :
        c.id = n /\ SettleText(c, outcome)

SubmissionNext ==
    \/ \E page \in TextScreens : OpenFeature(page)
    \/ BackHome
    \/ \E text \in AppTexts : JournalSubmit(text)
    \/ \E text \in AppTexts : VoiceAnalyze(text)
    \/ \E n \in 1..MaxCalls : TextAnswered(n)

\* the signed-in user writes and dictates entries, leaving the screens at
\* will; every request made of the external model is answered or rejected
\* in the end
SubmissionSpec ==
    /\ MoodLogInit
    /\ [][SubmissionNext]_vars
    /\ \A n \in 1..MaxCalls : WF_vars(TextAnswered(n))

\* ------------------------------------------- recommendations, refetched

\* the scan left awaiting its classification before the observation starts
PendingScan == Call(0, "analyzeImageMood", "MoodScan", "Facial", "/9j/4AAQ")

\* the external model answers a scan
ScanAnswered ==
    \E c \in inflight : \E outcome \in AppClassificationOutcomes : SettleImage(c, outcome)

\* the external model answers a fetch of recommendations
FetchAnswered ==
    \E c \in inflight : \E outcome \in AppRecommendationsOutcomes :
        SettleRecommendations(c, outcome)

\* the app on MoodScanScreen, a journal entry logged earlier and a capture
\* awaiting its classification; invocations and calls are observed from here
RefetchInit ==
    /\ defaultRecommendations = GenericDefault
    /\ invocation = Idle
    /\ clock = 0
    /\ currentPage = "MoodScan"
    /\ \E entry \in LoggedEntries :
           /\ moodHistory = <<newEntryOf(entry, 0, 0)>>
           /\ highDistressAlert \in {FALSE, IsDistress(entry)}
    /\ chatSession = FALSE
    /\ chatHistory = <<>>
    /\ isAiTyping = FALSE
    /\ screen = [isLoading |-> TRUE, detectedMood |-> JNull]
    /\ inflight = {PendingScan}
    /\ callsStarted = 0
    /\ view = NotRendered

RefetchNext ==
    \/ BackHome
    \/ OpenRecommendations
    \/ ScanAnswered
    \/ FetchAnswered

\* the user leaves the scan for the Recommendations screen, which fetches on
\* mount and again when the scan's entry arrives; the answers come in any
\* order
RefetchSpec == RefetchInit /\ [][RefetchNext]_vars

\* ---------------------------------------------------------------- the chat

\* the external model answers a chat message
ChatAnswered ==
    \E c \in inflight : \E outcome \in ChatOutcomes : SettleChat(c, outcome)

\* a consumer of the app context calls sendMessage, which the chat screen
\* does through ChatSend and any component may do before the chat was opened
CallSendMessage(text) ==
    /\ currentPage = "SupportChat" \/ ~chatSession
    /\ sendMessage(text)

ChatNext ==
    \/ OpenSupportChat
    \/ BackHome
    \/ \E text \in ChatTexts : CallSendMessage(text)
    \/ ChatAnswered

\* the signed-in user opens, leaves and reopens the chat; sendMessage is
\* called with or without a session
ChatSpec == MoodLogInit /\ [][ChatNext]_vars

\* ------------------------------------------------------------ the claims

Settled(op) == invocation.phase = "settled" /\ invocation.op = op

\* the reply of the external model that a settled invocation consumed
Answered(op) == Settled(op) /\ "outcome" \in DOMAIN invocation

\* the value JSON.parse made of a response that did not fail
ParsedValue(outcome) == outcome.text.value

\* the value is an object that carries field k with a non-empty value
Carries(v, k) == v.kind = "object" /\ k \in DOMAIN v.fields /\ v.fields[k] # ""

\* C1: analyzeTextMood never rejects, and when the remote call fails in
\* transport or its response text cannot be parsed it resolves to exactly
\* {mood: Neutral, emoji: neutral face, notes: "Could not analyze mood."}.
C1_TextFailureDegrades ==
    Answered("analyzeTextMood") =>
        /\ invocation.promise.state = "fulfilled"
        /\ IsFailure(invocation.outcome) =>
               invocation.promise.value =
                   JObject([mood |-> "Neutral", emoji |-> "U+1F610",
                            notes |-> "Could not analyze mood."])

\* a text classification whose response text did not parse has resolved
C1_Witness ==
    /\ Answered("analyzeTextMood")
    /\ invocation.outcome = RemoteResponds(TextMalformed)
    /\ invocation.promise.state = "fulfilled"

\* C2: for every outcome of the remote call, analyzeTextMood resolves to a
\* triple whose mood is one of the nine moods and whose emoji is non-empty.
C2_TextResultIsValid ==
    Answered("analyzeTextMood") =>
        /\ invocation.promise.state = "fulfilled"
        /\ Carries(invocation.promise.value, "mood")
        /\ invocation.promise.value.fields.mood \in Mood
        /\ Carries(invocation.promise.value, "emoji")

\* C3: analyzeImageMood never rejects, and when the remote call fails or the
\* parsed response lacks mood or lacks emoji it resolves to exactly
\* {mood: Neutral, emoji: neutral face,
\*  notes: "Could not determine mood from image."}.
C3_ImageFailureDegrades ==
    Answered("analyzeImageMood") =>
        /\ invocation.promise.state = "fulfilled"
        /\ (\/ IsFailure(invocation.outcome)
            \/ ~Carries(ParsedValue(invocation.outcome), "mood")
            \/ ~Carries(ParsedValue(invocation.outcome), "emoji")) =>
               invocation.promise.value =
                   JObject([mood |-> "Neutral", emoji |-> "U+1F610",
                            notes |-> "Could not determine mood from image."])

\* an image classification answered with an emoji and no mood has resolved
C3_Witness ==
    /\ Answered("analyzeImageMood")
    /\ ~IsFailure(invocation.outcome)
    /\ Carries(ParsedValue(invocation.outcome), "emoji")
    /\ ParsedValue(invocation.outcome).kind = "object"
    /\ "mood" \notin DOMAIN ParsedValue(invocation.outcome).fields
    /\ invocation.promise.state = "fulfilled"

\* the notes the image path is to synthesize, per mood
DetectedNotes(mood) ==
    CASE mood = "Happy" -> "Detected a happy expression."
      [] mood = "Sad" -> "Detected a sad expression."
      [] mood = "Neutral" -> "Detected a neutral expression."
      [] mood = "Anxious" -> "Detected a anxious expression."
      [] mood = "Calm" -> "Detected a calm expression."
      [] mood = "Excited" -> "Detected a excited expression."
      [] mood = "Tired" -> "Detected a tired expression."
      [] mood = "Angry" -> "Detected a angry expression."
      [] mood = "Content" -> "Detected a content expression."

\* the response carries one of the nine moods and an emoji
CarriesMoodAndEmoji(outcome) ==
    /\ ~IsFailure(outcome)
    /\ Carries(ParsedValue(outcome), "mood")
    /\ ParsedValue(outcome).fields.mood \in Mood
    /\ Carries(ParsedValue(outcome), "emoji")

\* C4: when the remote image response contains both mood and emoji,
\* analyzeImageMood returns that mood and emoji unchanged and notes equal to
\* "Detected a <mood lowercased> expression.", for each of the nine moods.
C4_ImageSuccess ==
    (Answered("analyzeImageMood") /\ CarriesMoodAndEmoji(invocation.outcome)) =>
        LET got == ParsedValue(invocation.outcome).fields
        IN  /\ invocation.promise.state = "fulfilled"
            /\ invocation.promise.value =
                   JObject([mood |-> got.mood, emoji |-> got.emoji,
                            notes |-> DetectedNotes(got.mood)])

\* an image classification answered with {mood: Anxious, emoji} has resolved
C4_Witness ==
    /\ Answered("analyzeImageMood")
    /\ CarriesMoodAndEmoji(invocation.outcome)
    /\ ParsedValue(invocation.outcome).fields.mood = "Anxious"
    /\ ParsedValue(invocation.outcome).fields.emoji = SmilingFace
    /\ invocation.promise.value.fields.notes = "Detected a anxious expression."

\* C5: getRecommendations called with an empty mood history returns the
\* generic default bundle with forMood = Neutral and issues no remote request.
C5_EmptyHistoryDefault ==
    (Settled("getRecommendations") /\ Len(invocation.arg) = 0) =>
        /\ invocation.promise.state = "fulfilled"
        /\ invocation.promise.value = GenericDefault
        /\ invocation.promise.value.forMood = "Neutral"
        /\ invocation.requests = 0
        /\ "outcome" \notin DOMAIN invocation

\* getRecommendations([]) has resolved
C5_Witness ==
    /\ Settled("getRecommendations")
    /\ invocation.arg = <<>>
    /\ invocation.promise.state = "fulfilled"

\* the remote call succeeded: its response text parsed
Succeeded(outcome) == ~IsFailure(outcome)

\* C6: for every non-empty history, when the remote call succeeds
\* getRecommendations returns the parsed bundle with forMood equal to the
\* mood of the last history entry, even when the response carries a
\* different forMood value.
C6_SuccessStampsForMood ==
    (Answered("getRecommendations") /\ Len(invocation.arg) > 0
        /\ Succeeded(invocation.outcome)) =>
        LET parsed == ParsedValue(invocation.outcome)
            result == invocation.promise.value
        IN  /\ invocation.promise.state = "fulfilled"
            /\ result.forMood = Last(invocation.arg).mood
            /\ parsed.kind = "object" =>
                   /\ DOMAIN result = DOMAIN parsed.fields \cup {"forMood"}
                   /\ \A k \in DOMAIN parsed.fields \ {"forMood"} :
                          result[k] = parsed.fields[k]

\* a history ending in Sad was answered with a full bundle marked Happy
C6_Witness ==
    /\ Answered("getRecommendations")
    /\ Len(invocation.arg) = 2
    /\ Last(invocation.arg).mood = "Sad"
    /\ Succeeded(invocation.outcome)
    /\ ParsedValue(invocation.outcome) = JObject(ModelBundle @@ [forMood |-> "Happy"])
    /\ invocation.promise.value.forMood = "Sad"

\* the remote call of a getRecommendations on a non-empty history failed
FailedFor(moods) ==
    /\ Answered("getRecommendations")
    /\ Len(invocation.arg) > 0
    /\ IsFailure(invocation.outcome)
    /\ Last(invocation.arg).mood \in moods

\* the static table entry of each mood that has one
StaticEntry(mood) ==
    CASE mood = "Sad" -> SadFallback
      [] mood = "Anxious" -> AnxiousFallback
      [] mood = "Angry" -> AngryFallback
      [] mood = "Happy" -> HappyExcitedFallback
      [] mood = "Excited" -> HappyExcitedFallback

\* C7: when the remote call fails and the latest mood is Sad, Anxious, Angry,
\* Happy or Excited, getRecommendations returns forMood = latest mood, the
\* generic 3-item default breathing list unchanged, and journaling, music and
\* videos replaced by that mood's static table entry (Happy and Excited
\* sharing one entry).
C7_FailureMoodSpecific ==
    FailedFor({"Sad", "Anxious", "Angry", "Happy", "Excited"}) =>
        LET mood == Last(invocation.arg).mood
            result == invocation.promise.value
        IN  /\ invocation.promise.state = "fulfilled"
            /\ DOMAIN result = {"forMood", "breathing", "journaling", "music", "videos"}
            /\ result.forMood = mood
            /\ result.breathing = GenericDefault.breathing
            /\ Len(result.breathing) = 3
            /\ result.journaling = StaticEntry(mood).journaling
            /\ result.music = StaticEntry(mood).music
            /\ result.videos = StaticEntry(mood).videos
            /\ result.journaling # GenericDefault.journaling
            /\ mood = "Sad" =>
                   result.journaling[1] =
                       "What's one small thing that could bring you comfort right now?"

\* a getRecommendations on a history ending in Sad has failed over to the
\* Sad entry
C7_Witness ==
    /\ FailedFor({"Sad"})
    /\ invocation.outcome = RemoteRejects
    /\ invocation.promise.value.videos[1].title = "10-Min Meditation for Sadness"

\* C8: when the remote call fails and the latest mood is Neutral, Calm, Tired
\* or Content, getRecommendations returns the generic default bundle's
\* breathing, journaling, music and videos unchanged, stamped with
\* forMood = latest mood.
C8_FailureGeneric ==
    FailedFor({"Neutral", "Calm", "Tired", "Content"}) =>
        LET mood == Last(invocation.arg).mood
            result == invocation.promise.value
        IN  /\ invocation.promise.state = "fulfilled"
            /\ DOMAIN result = {"forMood", "breathing", "journaling", "music", "videos"}
            /\ result.forMood = mood
            /\ result.breathing = GenericDefault.breathing
            /\ result.journaling = GenericDefault.journaling
            /\ result.music = GenericDefault.music
            /\ result.videos = GenericDefault.videos

\* a getRecommendations on a history ending in Tired has failed over to the
\* generic bundle
C8_Witness ==
    /\ FailedFor({"Tired"})
    /\ invocation.outcome = RemoteResponds(TextMalformed)
    /\ invocation.promise.value.forMood = "Tired"
    /\ invocation.promise.value.journaling = GenericDefault.journaling

\* a getRecommendations on a non-empty history has sent its request
Requested ==
    /\ invocation.phase \in {"awaiting", "settled"}
    /\ invocation.op = "getRecommendations"
    /\ Len(invocation.arg) > 0

\* C9: for every non-empty history, the video type requested from the model
\* is Meditation exactly when the latest mood is Sad, Anxious, Angry or Tired,
\* and Funny for each of the other five moods.
C9_VideoTypeOfLatestMood ==
    Requested =>
        LET mood == Last(invocation.arg).mood
        IN  /\ "request" \in DOMAIN invocation
            /\ invocation.requests = 1
            /\ invocation.request.latestMood = mood
            /\ mood \in {"Sad", "Anxious", "Angry", "Tired"} =>
                   invocation.request.videoType = "Meditation"
            /\ mood \in {"Happy", "Neutral", "Calm", "Excited", "Content"} =>
                   invocation.request.videoType = "Funny"

\* a request for a history that ends in Tired after a Happy entry is awaited
C9_Witness ==
    /\ Requested
    /\ invocation.phase = "awaiting"
    /\ Len(invocation.arg) = 2
    /\ invocation.arg[1].mood = "Happy"
    /\ Last(invocation.arg).mood = "Tired"
    /\ invocation.request.videoType = "Meditation"

\* the declared shape of a Recommendations value
IsRecommendations(v) ==
    /\ DOMAIN v = {"forMood", "breathing", "journaling", "music", "videos"}
    /\ v.forMood \in Mood
    /\ Len(v.breathing) = 3
    /\ Len(v.journaling) = 3
    /\ Len(v.music) = 2
    /\ \A i \in 1..Len(v.music) : DOMAIN v.music[i] = {"title", "description"}
    /\ Len(v.videos) = 2
    /\ \A i \in 1..Len(v.videos) :
           DOMAIN v.videos[i] = {"title", "type"} /\ v.videos[i].type \in VideoKind

\* C10: for every history and every outcome of the remote call,
\* getRecommendations resolves without rejecting to a value of the declared
\* Recommendations shape: a forMood plus 3 breathing items, 3 journaling
\* items, 2 music items and 2 videos.
C10_RecommendationsShape ==
    Settled("getRecommendations") =>
        /\ invocation.promise.state = "fulfilled"
        /\ IsRecommendations(invocation.promise.value)

\* ---------------------------------------------- claims on the mood aggregator

\* the cards of the rendered tracker that show a distribution and a chart
StatsCards ==
    IF view.page = "MoodTracker"
    THEN {view.cards[i] : i \in {j \in DOMAIN view.cards : view.cards[j].shows = "stats"}}
    ELSE {}

MoodsOf(data) == {data[k].mood : k \in DOMAIN data}

Occurrences(data, mood) == Cardinality({k \in DOMAIN data : data[k].mood = mood})

Distance(a, b) == IF a >= b THEN a - b ELSE b - a

\* C11: the distribution of every card has exactly one row for each mood
\* present in the card's slice, the row's count is the number of entries of
\* the slice with that mood, its percentage is 100 * count / total rounded to
\* a nearest integer, and the rows are in non-increasing order of count.
C11_Distribution ==
    \A card \in StatsCards :
        LET rows == card.emotionStats
            total == Len(card.data)
        IN  /\ {rows[r].mood : r \in DOMAIN rows} = MoodsOf(card.data)
            /\ \A r, q \in DOMAIN rows : rows[r].mood = rows[q].mood => r = q
            /\ \A r \in DOMAIN rows :
                   /\ rows[r].count = Occurrences(card.data, rows[r].mood)
                   /\ 2 * Distance(rows[r].percentage * total, 100 * rows[r].count) <= total
            /\ \A r, q \in DOMAIN rows : r < q => rows[r].count >= rows[q].count

\* a slice that begins with its rarer mood: two rows, of 67 and 33 percent
C11_Witness ==
    \E card \in StatsCards :
        /\ Len(card.emotionStats) = 2
        /\ card.emotionStats[1].percentage = 67
        /\ card.emotionStats[2].percentage = 33
        /\ card.data[1].mood = card.emotionStats[2].mood

\* the first entry of a history that has the mood
FirstWith(history, mood) ==
    history[CHOOSE k \in DOMAIN history :
                /\ history[k].mood = mood
                /\ \A j \in 1..(k - 1) : history[j].mood # mood]

\* C12: in the distribution of every card, whatever its window, the emoji of
\* a mood's row is the emoji of the first entry with that mood in the whole
\* history.
C12_FirstOccurrenceEmoji ==
    \A card \in StatsCards :
        \A r \in DOMAIN card.emotionStats :
            card.emotionStats[r].emoji
                = FirstWith(view.history, card.emotionStats[r].mood).emoji

\* every chart drawn in the rendered view, with the entries it was given
ChartsDrawn ==
    {<<card.data, card.chart>> : card \in StatsCards}
    \cup (IF view.page = "Home"
          THEN {<<SliceLast(view.history, SummaryPoints), view.chart>>}
          ELSE {})

\* C13: the trend value of a mood is its place on the severity scale
\* Angry 0, Sad 1, Tired 2, Anxious 3, Neutral 4, Content 5, Calm 6,
\* Excited 7, Happy 8, for every point of every chart drawn.
C13_SeverityScale ==
    LET scale == [Angry |-> 0, Sad |-> 1, Tired |-> 2, Anxious |-> 3, Neutral |-> 4,
                  Content |-> 5, Calm |-> 6, Excited |-> 7, Happy |-> 8]
    IN  \A drawn \in ChartsDrawn :
            \A i \in DOMAIN drawn[2].chartData :
                drawn[2].chartData[i].moodValue = scale[drawn[2].chartData[i].mood]

\* C14: the chart's series has one point for each entry it was given, in the
\* order given, each with that entry's mood; given fewer than two entries the
\* chart shows the placeholder text, given two or more it plots the series.
C14_ChartSeries ==
    \A drawn \in ChartsDrawn :
        LET data == drawn[1]
            chart == drawn[2]
        IN  /\ Len(chart.chartData) = Len(data)
            /\ \A i \in DOMAIN data : chart.chartData[i].mood = data[i].mood
            /\ Len(data) < 2 => chart.shows = "Not enough data to draw a trend line."
            /\ Len(data) >= 2 => chart.shows = "LineChart"

\* a chart that plots entries of different moods
C14_Witness ==
    \E drawn \in ChartsDrawn :
        /\ Len(drawn[1]) >= 2
        /\ drawn[1][1].mood # drawn[1][2].mood
        /\ drawn[2].shows = "LineChart"

\* the entries of a history dated at or after an instant
DatedSince(history, cutoff) == SelectSeq(history, LAMBDA entry : entry.date >= cutoff)

\* C15: the 7-day card is given exactly the entries dated at or after
\* midnight of the day 7 days before today, the 30-day card those at or after
\* midnight of the day 30 days before today, an entry dated at the cutoff
\* included, and the all-time card the whole history.
C15_Windows ==
    (view.page = "MoodTracker" /\ Len(view.cards) > 0) =>
        LET today == DayOf(view.now)
        IN  /\ view.cards[1].data = DatedSince(view.history, Midnight(today - 7))
            /\ view.cards[2].data = DatedSince(view.history, Midnight(today - 30))
            /\ view.cards[3].data = view.history

\* ------------------------------------------------------- claims on the app

\* C16: a step that adds a mood entry sets the distress alert when the
\* entry's mood is Sad, Angry or Anxious, and leaves the alert at the value
\* it had when the mood is one of the other six.
C16_AlertOnDistress ==
    [][Len(moodHistory') = Len(moodHistory) + 1 =>
           IF Last(moodHistory').mood \in {"Sad", "Angry", "Anxious"}
           THEN highDistressAlert' = TRUE
           ELSE highDistressAlert' = highDistressAlert]_vars

\* an Anxious entry, the first logged, has raised the alert
C16_Witness ==
    /\ Len(moodHistory) = 1
    /\ moodHistory[1].mood = "Anxious"
    /\ highDistressAlert

\* C17: a step taken while the distress alert is set leaves it set, whether
\* it adds a mood, navigates, sends or answers a chat message or fetches
\* recommendations, unless the step is the dismiss action of SafetyScreen.
C17_AlertLatched ==
    [][(highDistressAlert /\ ~highDistressAlert') => HandleDismiss]_vars

\* the alert is still set after a later entry with a mood that does not
\* raise it
C17_Witness ==
    /\ highDistressAlert
    /\ Len(moodHistory) >= 2
    /\ moodHistory[1].mood = "Sad"
    /\ Last(moodHistory).mood = "Neutral"

\* C18: in every step the mood history before the step is a prefix of the
\* history after it, and the entries are in non-decreasing order of date.
C18_AppendOnly ==
    [][/\ Len(moodHistory) <= Len(moodHistory')
       /\ \A i \in 1..Len(moodHistory) : moodHistory'[i] = moodHistory[i]
       /\ \A i \in 1..Len(moodHistory') : \A j \in i..Len(moodHistory') :
              moodHistory'[i].date <= moodHistory'[j].date]_vars

\* two entries logged at different instants
C18_Witness ==
    /\ Len(moodHistory) = 2
    /\ moodHistory[1].date < moodHistory[2].date

\* C19: an invocation of analyzeTextMood, analyzeImageMood, getRecommendations
\* or the chat's sendMessage has issued at most one request to the external
\* model, while it is suspended and when it has returned; one whose request
\* failed has returned normally, with the fallback, having issued no other.
C19_SingleRequest ==
    /\ \A c \in inflight : c.requests <= 1
    /\ invocation.phase = "settled" =>
           /\ invocation.requests <= 1
           /\ IsFailure(invocation.outcome) =>
                  /\ invocation.promise.state = "fulfilled"
                  /\ invocation.op = "analyzeTextMood" =>
                         invocation.promise.value = TextFallback
                  /\ invocation.op = "analyzeImageMood" =>
                         invocation.promise.value = ImageFallback
                  /\ invocation.op = "getRecommendations" =>
                         invocation.promise.value.journaling
                             \in {GenericDefault.journaling, SadFallback.journaling,
                                  AnxiousFallback.journaling, AngryFallback.journaling,
                                  HappyExcitedFallback.journaling}
                  /\ invocation.op = "sendMessage" =>
                         \E i \in DOMAIN chatHistory : chatHistory[i].text = ChatApology

\* a chat message whose request was rejected has been answered
C19_Witness ==
    /\ invocation.phase = "settled"
    /\ invocation.op = "sendMessage"
    /\ invocation.outcome = RemoteRejects
    /\ invocation.requests = 1

\* C20: at most one chat send is awaiting its reply at any moment, and every
\* user message of the chat history that has a successor is followed at once
\* by an assistant message.
C20_ChatOneAtATime ==
    /\ Cardinality({c \in inflight : c.op = "sendMessage"}) <= 1
    /\ \A i \in 1..(Len(chatHistory) - 1) :
           chatHistory[i].sender = "user" => chatHistory[i + 1].sender = "ai"

\* a suspended handler resumes and runs to its end in this step
Resumes(c) == c \in inflight /\ \A d \in inflight' : d.id # c.id

\* C21: a step in which a chat send whose request failed runs to its end
\* returns normally and appends one message to the chat history, from the
\* assistant and with the apology as its text; the messages before it,
\* the user's among them, are those of the history before the step.
C21_ChatFailureApologises ==
    [][\A c \in inflight :
           (c.op = "sendMessage" /\ Resumes(c) /\ IsFailure(invocation'.outcome)) =>
               /\ invocation'.promise.state = "fulfilled"
               /\ Len(chatHistory') = Len(chatHistory) + 1
               /\ \A i \in DOMAIN chatHistory : chatHistory'[i] = chatHistory[i]
               /\ Last(chatHistory').sender = "ai"
               /\ Last(chatHistory').text = ChatApology
               /\ \E i \in DOMAIN chatHistory :
                      /\ chatHistory[i].sender = "user"
                      /\ chatHistory[i].text = c.arg]_vars

\* the greeting, the user's message and the apology, after a reply without
\* text
C21_Witness ==
    /\ invocation.phase = "settled"
    /\ invocation.op = "sendMessage"
    /\ invocation.outcome = RemoteResponds(TextUndefined)
    /\ Len(chatHistory) = 3
    /\ chatHistory[2].sender = "user"
    /\ chatHistory[3] = [id |-> chatHistory[3].id, sender |-> "ai", text |-> ChatApology]

\* the source tag each logging screen gives its entries
SourceTag ==
    [Journal |-> "Journal", VoiceLog |-> "Voice", MoodScan |-> "Facial"]

\* C22: a request for a classification made by the Journal, Voice Log or
\* Mood Scan screen stays awaited whatever screen is shown, and the step in
\* which it is answered appends to the mood history one entry with the
\* source tag of the screen that made it, that screen mounted or not.
C22_NavigationDoesNotCancel ==
    [][\A c \in inflight :
           c.op \in {"analyzeTextMood", "analyzeImageMood"} =>
               \/ \E d \in inflight' : d.id = c.id /\ d.op = c.op /\ d.arg = c.arg
               \/ /\ Len(moodHistory') = Len(moodHistory) + 1
                  /\ Last(moodHistory').source = SourceTag[c.caller]]_vars

\* the Recommendations screen, which showed a bundle already, fetches again
\* because a scan left behind was answered and its entry, the first, added
C22_Witness ==
    /\ currentPage = "Recommendations"
    /\ Len(moodHistory) = 1
    /\ moodHistory[1].source = "Facial"
    /\ screen.recommendations # JNull
    /\ \E c \in inflight : c.op = "getRecommendations" /\ c.live /\ c.arg = moodHistory

\* C23: while a chat send awaits its reply the typing indicator is on.
C23_TypingWhileAwaiting ==
    (\E c \in inflight : c.op = "sendMessage") => isAiTyping

\* the screen has a submission under way
Loading(page) == currentPage = page /\ screen.isLoading

\* the n-th call is the classification of a submitted text, still awaited
Submitted(n) ==
    \E c \in inflight : c.id = n /\ c.op = "analyzeTextMood" /\ c.caller \in TextScreens

\* C24: a submission accepted by the Journal or Voice Log screen is answered
\* in the end, whatever the outcome of its request; the step that answers it
\* appends one entry with the source of the screen and leaves the screen not
\* loading; and the mood history changes in no other step.
C24_SubmissionCompletes ==
    /\ \A n \in 1..MaxCalls : Submitted(n) ~> ~Submitted(n)
    /\ [][/\ \A c \in inflight :
                 (c.op = "analyzeTextMood" /\ Resumes(c)) =>
                     /\ Len(moodHistory') = Len(moodHistory) + 1
                     /\ \A i \in DOMAIN moodHistory : moodHistory'[i] = moodHistory[i]
                     /\ Last(moodHistory').source = SourceTag[c.caller]
                     /\ ~Loading(c.caller)'
                     /\ \A d \in inflight \ {c} : ~Resumes(d)
          /\ moodHistory' # moodHistory => \E c \in inflight : Resumes(c)]_vars

\* a journal entry whose request was rejected and a voice log are in the
\* history, nothing is awaited and no screen is loading
C24_Witness ==
    /\ Len(moodHistory) = 2
    /\ moodHistory[1].source = "Journal"
    /\ moodHistory[1].notes = TextFallback.fields.notes
    /\ moodHistory[2].source = "Voice"
    /\ inflight = {}
    /\ callsStarted = 2
    /\ currentPage = "Home"

\* the classification requests answered in this step, each of which ends
\* in a call of addMoodEntry
ClassifiedNow ==
    {c \in inflight : c.op \in {"analyzeTextMood", "analyzeImageMood"} /\ Resumes(c)}

\* C25: every step lengthens the mood history by the number of
\* classification requests answered in it, none or one, whichever requests
\* are awaited at the time and in whatever order they are answered; the
\* history, empty at first, is thus as long as the number of addMoodEntry
\* calls made.
C25_NoLostAppend ==
    [][/\ Cardinality(ClassifiedNow) <= 1
       /\ Len(moodHistory') = Len(moodHistory) + Cardinality(ClassifiedNow)]_vars

\* of two requests awaited together the second was answered first: its
\* entry is in the history while the first is still awaited
C25_Witness ==
    /\ callsStarted = 2
    /\ Len(moodHistory) = 1
    /\ \E c \in inflight : c.id = 1 /\ c.op \in {"analyzeTextMood", "analyzeImageMood"}

\* C26: when the remote call fails, whichever of the nine moods is the
\* latest, every video of the bundle getRecommendations returns has the type
\* derived from that mood.
C26_FallbackVideoType ==
    FailedFor(Mood) =>
        LET result == invocation.promise.value
        IN  \A i \in DOMAIN result.videos :
                result.videos[i].type = videoTypeOf(Last(invocation.arg).mood)

\* the Recommendations screen awaits a fetch it started
Fetching ==
    \E c \in inflight : c.op = "getRecommendations" /\ c.live

\* C27: whenever the Recommendations screen is shown and awaits no fetch,
\* the bundle it displays is for the mood of the latest entry of the mood
\* history (Neutral when there is none).
C27_DisplayedForLatestMood ==
    (currentPage = "Recommendations" /\ ~Fetching) =>
        /\ screen.recommendations # JNull
        /\ screen.recommendations.forMood = latestMoodOf(moodHistory)

\* C28: the module-level default bundle is the literal it was initialised
\* with after any sequence of getRecommendations calls, failed ones with
\* any latest mood among them, and a call on an empty history made then
\* returns it: forMood = Neutral with the generic breathing, journaling,
\* music and videos.
C28_DefaultBundleIntact ==
    /\ defaultRecommendations = GenericDefault
    /\ (Settled("getRecommendations") /\ invocation.arg = <<>>) =>
           LET result == invocation.promise.value
           IN  /\ result.forMood = "Neutral"
               /\ result.breathing[1] = "Take 5 deep breaths."
               /\ result.journaling[1] = "What is one thing you are grateful for today?"
               /\ result.music[1].title = "Acoustic Calm"
               /\ result.videos[1].title = "5-Minute Guided Meditation for Beginners"

\* the failure path has just built the bundle for Angry, and the default
\* bundle still has its own videos
C28_Witness ==
    /\ FailedFor({"Angry"})
    /\ invocation.promise.value.forMood = "Angry"
    /\ invocation.promise.value.videos = AngryFallback.videos
    /\ defaultRecommendations.videos # invocation.promise.value.videos

\* C29: the step that creates the chat session sets the chat history to the
\* greeting alone; a step that shows the chat screen when the session exists
\* leaves the session and the chat history as they were; and while there is
\* no session no step, a call of sendMessage included, changes the chat
\* history, the typing indicator or the requests made.
C29_InitializeOnce ==
    [][/\ (~chatSession /\ chatSession') =>
              /\ chatHistory = <<>>
              /\ chatHistory' = <<Greeting>>
       /\ chatSession => chatSession'
       /\ (chatSession /\ currentPage # "SupportChat" /\ currentPage' = "SupportChat") =>
              chatHistory' = chatHistory
       /\ (~chatSession /\ ~chatSession') =>
              /\ chatHistory' = chatHistory
              /\ isAiTyping' = isAiTyping
              /\ inflight' = inflight
              /\ callsStarted' = callsStarted]_vars

\* the chat screen is shown, the conversation begun with the one greeting
\* and answered since
C29_Witness ==
    /\ currentPage = "SupportChat"
    /\ chatSession
    /\ Len(chatHistory) = 3
    /\ chatHistory[1] = Greeting
    /\ \A i \in 2..3 : chatHistory[i] # Greeting
    /\ inflight = {}

\* C30: the entries of the mood history have pairwise distinct ids.
C30_DistinctIds ==
    \A i \in DOMAIN moodHistory : \A j \in DOMAIN moodHistory :
        i # j => moodHistory[i].id # moodHistory[j].id

==========================================================================
